---- MODULE Spec2Model ----
(***************************************************************************)
(* Recipe acquisition and multi-language cache pipeline of the backend:    *)
(* main.py (process_video_background), services/gemini.py                  *)
(* (get_cached_recipe, translate_recipe, analyze_video) and                *)
(* services/firebase_service.py (the Firestore document store, the asset   *)
(* upload and the key derivation).                                         *)
(*                                                                         *)
(* Python's None is the empty tuple <<>>.  A dict is a function whose      *)
(* DOMAIN is its key set, so `k in d` is k \in DOMAIN d.                   *)
(***************************************************************************)
EXTENDS Integers, Sequences, FiniteSets, TLC

VARIABLES
    store,      \* Firestore collection 'recipes': document id -> document
    files,      \* local file system of the process: file name -> bytes
    now,        \* int(time.time()) while the units illustrate
    fbUp,       \* firebase_admin._apps is non-empty (set once at import)
    imaging,    \* the image-generation backend is able to return images
    quota,      \* the number of /analyze requests the clients send
    maxdraft,   \* the most steps a draft of the extractor has
    extras,     \* the ratings and review counts the extractor may put in a
                \* draft (<<x>> for the value x, None when the key is absent)
                \* and the numbers random may return for the defaults
    tokens,     \* the fcm_token values the /analyze requests may carry
                \* (<<t>> for the token t, None when the request has none)
    served,     \* the number of /analyze requests accepted so far
    run,        \* the background units: run -> its locals and position
    call,       \* harness: concurrent save_recipe_to_firestore calls
    tr          \* harness: one call of translate_recipe (input, response,
                \* result) or of generate_recipe_id (inputs, keys)

vars ==
    <<store, files, now, fbUp, imaging, quota, maxdraft, extras, tokens, served, run,
      call, tr>>

None == <<>>

----------------------------------------------------------------------------
(* Bounds of the model *)

\* steps a draft returned by the extractor may have
MaxSteps == 1
\* the same, where one unit works alone
MaxDraft == 2
\* steps of a base recipe and of a translator response, where
\* translate_recipe is called on its own
MaxBaseSteps == 2
MaxRespSteps == 3

\* round(random.uniform(4.0, 5.0), 1) in tenths and random.randint(50, 500):
\* the ends of the ranges
MinRating == 40
MaxRating == 50
MinReviews == 50
MaxReviews == 500

\* an extractor that supplies neither number, and one default
PlainExtras ==
    [rating |-> {None}, reviews_count |-> {None},
     uniform |-> {MinRating}, randint |-> {MinReviews}]

\* an extractor that supplies a rating of 3.0 and 7 reviews or leaves them
\* out, and the defaults at either end of their ranges
AllExtras ==
    [rating |-> {None, <<30>>}, reviews_count |-> {None, <<7>>},
     uniform |-> {MinRating, MaxRating}, randint |-> {MinReviews, MaxReviews}]

Runs == {1, 2}
\* tokens of the path of a source URL and of the suffix appended to it,
\* where generate_recipe_id is called on its own
MaxPathLen == 3
MaxSuffixLen == 3
\* /analyze requests in all, where the units take one request after another
MaxRequests == 3
Langs == {"en", "fr", "de"}
\* the languages the requests of the background units ask for
ReqLangs == {"en", "fr"}

\* int(time.time()): the second the temporary files are named in.  Its
\* decimal digits matter because the file name ends up in exception messages
\* (gemini.py:333): one second whose digits hold "429" and one whose digits
\* hold neither "429" nor "503".
Times == {428, 429}

----------------------------------------------------------------------------
(* firebase_service.generate_recipe_id *)

\* A URL is a sequence of tokens: the literals the pattern names are single
\* tokens, every other token is one character.
Url == <<"https://www.", "instagram.com/", "reel/", "X", "Y">>

StopChars == {"/", "?", "#"}
Literals == {"https://www.", "instagram.com/", "reel/", "p/"}

\* hashlib.md5(...).hexdigest(): a fixed-length printable digest, taken to
\* be injective on the keys of the model
md5(unique_key) == <<"md5", unique_key>>

\* positions where r'instagram\.com/(?:reel|p)/([^/?#]+)' matches: the group
\* needs one character that is none of / ? #, which a literal begins with
MatchStarts(s) ==
    {k \in 1..Len(s) :
        /\ k + 2 <= Len(s)
        /\ s[k] = "instagram.com/"
        /\ s[k+1] \in {"reel/", "p/"}
        /\ s[k+2] \notin StopChars}

Min(S) == CHOOSE x \in S : \A y \in S : x <= y

\* the characters of a literal before its first "/"
Stem(literal) ==
    CASE literal = "https://www."   -> "https:"
      [] literal = "instagram.com/" -> "instagram.com"
      [] literal = "reel/"          -> "reel"
      [] literal = "p/"             -> "p"

\* the greedy group ([^/?#]+) starting at position k: it ends before the
\* first / ? #, be it the "/" inside a literal
RECURSIVE GroupFrom(_, _)
GroupFrom(s, k) ==
    IF k > Len(s) \/ s[k] \in StopChars THEN <<>>
    ELSE IF s[k] \in Literals THEN <<Stem(s[k])>>
    ELSE <<s[k]>> \o GroupFrom(s, k + 1)

\* source_url.split(c)[0]
RECURSIVE SplitHead(_, _)
SplitHead(s, c) ==
    IF s = <<>> \/ Head(s) = c THEN <<>> ELSE <<Head(s)>> \o SplitHead(Tail(s), c)

generate_recipe_id(source_url) ==
    LET starts == MatchStarts(source_url)
        unique_key == IF starts # {}
                      THEN GroupFrom(source_url, Min(starts) + 2)
                      ELSE SplitHead(SplitHead(source_url, "?"), "#")
    IN  md5(unique_key)

Key == generate_recipe_id(Url)

----------------------------------------------------------------------------
(* models.Recipe and the Firestore document *)

\* A Recipe keeps what the pipeline's decisions can depend on:
\*   id              Recipe.id (None until assigned)
\*   title           the human-readable content, named by the extraction that
\*                   produced it (the run whose draft it is)
\*   text            the language the human-readable content is written in
\*   language        Recipe.language, the tag (default "en")
\*   steps           the steps, each by its image_url (None when absent)
\*   hero_image_url  None when absent
\*   rating          in tenths (48 is 4.8)
\*   reviews_count
\* source_url is the one URL of the model.

\* recipe.dict() as stored under translations[language].  Every loader
\* overwrites the stored id (gemini.py:30, 89, 173, 193), so it is left out.
Dict(recipe) ==
    [title |-> recipe.title, text |-> recipe.text, language |-> recipe.language,
     steps |-> recipe.steps, hero_image_url |-> recipe.hero_image_url,
     rating |-> recipe.rating, reviews_count |-> recipe.reviews_count]

\* Recipe(**payload)
RecipeOf(payload) ==
    [id |-> None, title |-> payload.title, text |-> payload.text,
     language |-> payload.language, steps |-> payload.steps,
     hero_image_url |-> payload.hero_image_url,
     rating |-> payload.rating, reviews_count |-> payload.reviews_count]

\* doc_ref.get().exists
Exists(db, id) == id \in DOMAIN db

\* doc_ref.set({'translations': {language: recipe_data}}) as it would act
\* without merge=True: the document is replaced by the one given
ReplaceSet(db, id, language, recipe_data) ==
    (id :> [translations |-> (language :> recipe_data)]) @@ db

\* doc_ref.set({'translations': {language: recipe_data}}, merge=True):
\* Firestore merges the given field paths into the document it holds when the
\* write is applied, and creates the document when there is none.
MergeSet(db, id, language, recipe_data) ==
    IF Exists(db, id)
    THEN [db EXCEPT ![id].translations = (language :> recipe_data) @@ @]
    ELSE (id :> [translations |-> (language :> recipe_data)]) @@ db

\* new_recipe of save_recipe_to_firestore
NewRecipe(recipe_data, source_url, language) ==
    [source_url     |-> source_url,
     created_at     |-> "SERVER_TIMESTAMP",
     translations   |-> (language :> recipe_data),
     metadata       |-> [author_name |-> recipe_data.title,
                         time        |-> recipe_data.text,
                         category    |-> recipe_data.text],
     hero_image_url |-> recipe_data.hero_image_url]

\* doc_ref.set(new_recipe): without merge the document is replaced
FullSet(db, id, new_recipe) == (id :> new_recipe) @@ db

\* existing_data.get(field): None when the document has no such field
Field(existing_data, field) ==
    IF field \in DOMAIN existing_data THEN existing_data[field] ELSE None

\* the cached-recipe block of get_cached_recipe and analyze_video: build the
\* Recipe of translations[language], give it the derived id and, where the
\* caller does so, restore the hero image from the document
CachedRecipe(existing_data, language, source_url, restore_hero) ==
    LET r == RecipeOf(existing_data.translations[language])
        hero == IF restore_hero /\ r.hero_image_url = None
                   /\ Field(existing_data, "hero_image_url") # None
                THEN existing_data.hero_image_url
                ELSE r.hero_image_url
    IN  [r EXCEPT !.id = generate_recipe_id(source_url), !.hero_image_url = hero,
                  !.rating = IF "rating" \in DOMAIN existing_data
                             THEN existing_data.rating ELSE @,
                  !.reviews_count = IF "reviews_count" \in DOMAIN existing_data
                                    THEN existing_data.reviews_count ELSE @]

----------------------------------------------------------------------------
(* gemini.translate_recipe *)

\* What the translation backend answers:
\*   [t |-> "error"]    generate_content raises
\*   [t |-> "invalid"]  the text is not JSON
\*   [t |-> "scalar"]   JSON that is neither an object nor a list
\*   [t |-> "dict", valid, nsteps, language]  a JSON object; valid when
\*                      Recipe(**data) accepts it; nsteps its number of steps;
\*                      language its "language" value
\*   [t |-> "list", items]  a JSON list of such values
Objects(maxsteps, target) ==
    [t : {"dict"}, valid : BOOLEAN, nsteps : 0..maxsteps, language : {"en", target}]

Items(maxsteps, target) == Objects(maxsteps, target) \cup {[t |-> "scalar"]}

Lists(maxsteps, target) ==
    {[t |-> "list", items |-> <<>>]}
    \cup {[t |-> "list", items |-> <<a>>] : a \in Items(maxsteps, target)}
    \cup {[t |-> "list", items |-> <<a, b>>] :
             a \in {[t |-> "scalar"]}, b \in Objects(maxsteps, target)}

Responses(maxsteps, target) ==
    {[t |-> "error"], [t |-> "invalid"], [t |-> "scalar"]}
    \cup Objects(maxsteps, target) \cup Lists(maxsteps, target)

\* zip(translated_recipe.steps, recipe.steps): as long as the shorter one
Zip(n, steps) == [k \in 1..(IF n < Len(steps) THEN n ELSE Len(steps)) |-> steps[k]]

\* The try block (gemini.py:123-154).  exc: an exception left the block;
\* ret: the value returned.
TranslateTry(recipe, target_language, response) ==
    IF response.t \in {"error", "invalid"}
    THEN [exc |-> TRUE, ret |-> None]
    ELSE IF response.t = "list"
              /\ ~(Len(response.items) > 0 /\ response.items[1].t = "dict")
    THEN [exc |-> FALSE, ret |-> recipe]
    ELSE LET data == IF response.t = "list" THEN response.items[1] ELSE response
         IN  IF data.t # "dict" \/ ~data.valid
             THEN [exc |-> TRUE, ret |-> None]
             ELSE [exc |-> FALSE,
                   ret |-> [id             |-> recipe.id,
                            title          |-> recipe.title,
                            text           |-> target_language,
                            language       |-> data.language,
                            steps          |-> Zip(data.nsteps, recipe.steps),
                            hero_image_url |-> recipe.hero_image_url,
                            rating         |-> recipe.rating,
                            reviews_count  |-> recipe.reviews_count]]

\* translate_recipe without its except clause: the exception reaches the caller
TranslateRaising(recipe, target_language, response) ==
    TranslateTry(recipe, target_language, response)

\* translate_recipe: `except Exception` returns the original recipe
translate_recipe(recipe, target_language, response) ==
    LET try == TranslateTry(recipe, target_language, response)
    IN  IF try.exc THEN [exc |-> FALSE, ret |-> recipe] ELSE try

----------------------------------------------------------------------------
(* firebase_service: the store operations *)

\* get_recipe_from_firestore: None when Firebase is not initialised, when the
\* call raises (raises: the backing store failed this call) or when there is
\* no document
get_recipe_from_firestore(db, source_url, up, raises) ==
    IF ~up \/ raises THEN None
    ELSE IF Exists(db, generate_recipe_id(source_url))
         THEN db[generate_recipe_id(source_url)]
         ELSE None

\* `language in translations` with translations = existing_data.get('translations', {})
HasLang(existing_data, language) ==
    /\ existing_data # None
    /\ "translations" \in DOMAIN existing_data
    /\ language \in DOMAIN existing_data.translations

\* the write of save_recipe_to_firestore, given what doc_ref.get() reported
SaveWrite(db, exists, recipe_data, source_url, language) ==
    IF exists
    THEN MergeSet(db, generate_recipe_id(source_url), language, recipe_data)
    ELSE FullSet(db, generate_recipe_id(source_url),
                 NewRecipe(recipe_data, source_url, language))

\* upload_image without the test of firebase_admin._apps
UploadUnguarded(fs, file_path, destination_blob_name, up, raises) ==
    IF raises \/ file_path \notin DOMAIN fs THEN None
    ELSE <<"url", destination_blob_name>>

\* upload_image: the public URL of the blob, which its name determines; None
\* when Firebase is not initialised or the upload raises (a missing local
\* file makes upload_from_filename raise)
upload_image(fs, file_path, destination_blob_name, up, raises) ==
    IF ~up \/ raises \/ file_path \notin DOMAIN fs THEN None
    ELSE <<"url", destination_blob_name>>

----------------------------------------------------------------------------
(* The background units *)

IdleRun ==
    [pc          |-> "idle",
     language    |-> "en",
     video_path  |-> None,   \* what download_instagram_video returned
     base_recipe |-> None,
     translated  |-> None,
     recipe      |-> None,   \* what analyze_video returned
     site        |-> "",     \* which call of translate/save is under way
     exists      |-> FALSE,  \* doc.exists as read by the save under way
     video_file  |-> "",     \* state of the uploaded video file
     polls       |-> 0,      \* rounds of the readiness loop so far, modulo 2
     data        |-> None,   \* the draft parsed from the extraction response
     draft       |-> None,   \* what the extractor returned: the number of steps,
                             \* the rating and reviews_count (None when absent)
     i           |-> 0,      \* step being illustrated (1-based)
     attempt     |-> 0,
     temp_filename |-> None,
     firestore_id  |-> None,
     error       |-> "",     \* where the exception that ended the run was raised
     outcome     |-> "",     \* "recipe_ready" or "error" once the run has ended
     fcm_token   |-> None,   \* the token of the request, None without one
     notices     |-> <<>>,   \* the data of the send_push_notification calls
     status      |-> "",     \* what the endpoint answered to the request
     via         |-> "analyze", \* the endpoint the request came to
     \* history, read by the properties only
     saw         |-> "",     \* what the first cache lookup found
     log         |-> <<>>,   \* the external calls issued, in order
     hist        |-> <<>>,   \* how the earlier attempts of step i ended, or
                             \* how the hero call ended when it raised
     upurl       |-> None,   \* what upload_image returned in this attempt
     tfail       |-> FALSE]  \* the backend failed the last translation

Me(r) == run[r]
Goto(r, rec) == run' = [run EXCEPT ![r] = rec]
Log(rec, e) == [rec EXCEPT !.log = Append(@, e)]

Env == <<now, fbUp, imaging, quota, maxdraft, extras, tokens>>
Shared == <<store, files, Env>>
Harness == <<call, tr>>

\* The positions at which a unit's next step reads or writes what the units
\* share: the store, the working directory, the clock.
SharedPcs ==
    {"idle", "gcr_read", "gcr2_read", "an_read", "save_get", "save_set",
     "gen", "up", "rm", "hero_gen", "hero_up", "hero_rm", "done"}

\* A step that touches nothing shared commutes with every step of the other
\* units, so it is taken right after the step before it: while a unit is at
\* such a position, the others wait.
\*
\* Two temporary files collide when they are named in the same second for the
\* same step index, and units whose names differ do not interfere at all, so
\* every outcome of units working in different seconds is also an outcome of
\* units working in the same second one after the other: the clock stands
\* still at the second chosen initially.
Local(r) ==
    \/ run[r].pc \notin SharedPcs
    \/ ~imaging /\ run[r].pc \in {"gen", "hero_gen"}
MayStep(r) == \A q \in Runs \ {r} : ~Local(q)

\* unit r is at position pc and may take its step
At(r, pc) == run[r].pc = pc /\ MayStep(r)

\* @app.post("/analyze"): the handler enqueues process_video_background
\* a handler that looks the recipe up itself and answers "completed" on a
\* hit, the design the comments of main.py:84-95 turn down
StartCached(r) ==
    /\ At(r, "idle") \/ At(r, "done")
    /\ served < quota
    /\ served' = served + 1
    /\ \E language \in ReqLangs, fcm_token \in tokens :
          IF HasLang(get_recipe_from_firestore(store, Url, fbUp, FALSE), language)
          THEN Goto(r, [IdleRun EXCEPT !.pc = "done", !.status = "completed"])
          ELSE Goto(r, [IdleRun EXCEPT !.pc = "gcr_read", !.language = language,
                                       !.fcm_token = fcm_token,
                                       !.status = "processing"])
    /\ UNCHANGED <<Shared, Harness>>

Start(r) ==
    /\ At(r, "idle") \/ At(r, "done")
    /\ served < quota
    /\ served' = served + 1
    /\ \E language \in ReqLangs, fcm_token \in tokens :
          Goto(r, [IdleRun EXCEPT !.pc = "gcr_read", !.language = language,
                                  !.fcm_token = fcm_token,
                                  !.status = "processing"])
    /\ UNCHANGED <<Shared, Harness>>

\* main.py:120-128  POST /translate: the handler itself calls
\* get_cached_recipe(request.url, request.language)
StartTranslate(r) ==
    /\ At(r, "idle") \/ At(r, "done")
    /\ served < quota
    /\ served' = served + 1
    /\ \E language \in ReqLangs :
          Goto(r, [IdleRun EXCEPT !.pc = "gcr_read", !.language = language,
                                  !.via = "translate"])
    /\ UNCHANGED <<Shared, Harness>>

\* the store fails a call only when Firebase is initialised at all
Raises == IF fbUp THEN BOOLEAN ELSE {FALSE}

\* a cache check that counts the requested language only: a document that
\* holds the base alone is a miss
GcrReadExact(r) ==
    /\ At(r, "gcr_read")
    /\ \E raises \in Raises :
        LET me == Me(r)
            existing_data == get_recipe_from_firestore(store, Url, fbUp, raises)
        IN  IF HasLang(existing_data, me.language)
            THEN Goto(r, [me EXCEPT !.pc = "an_read", !.saw = "language"])
            ELSE Goto(r, [me EXCEPT
                     !.pc = "download",
                     !.saw = IF HasLang(existing_data, "en") THEN "base" ELSE "miss"])
    /\ UNCHANGED <<Shared, served, Harness>>

\* main.py:31 and main.py:128  get_cached_recipe(url, language), up to the
\* translate call
GcrRead(r) ==
    /\ At(r, "gcr_read")
    /\ \E raises \in Raises :
        LET me == Me(r)
            existing_data == get_recipe_from_firestore(store, Url, fbUp, raises)
        IN  IF HasLang(existing_data, me.language)
            THEN IF me.via = "translate"
                 THEN Goto(r, [me EXCEPT
                          !.pc = "respond", !.saw = "language",
                          !.recipe = CachedRecipe(existing_data, me.language,
                                                  Url, TRUE)])
                 ELSE \* a Recipe is returned: has_cache is truthy
                      Goto(r, [me EXCEPT !.pc = "an_read", !.saw = "language"])
            ELSE IF HasLang(existing_data, "en")
            THEN Goto(r, [me EXCEPT
                     !.pc = "translate", !.site = "gcr", !.saw = "base",
                     !.base_recipe = CachedRecipe(existing_data, "en", Url, TRUE)])
            ELSE IF me.via = "translate"
            THEN \* None, for want of a document read or of a translation
                 Goto(r, [me EXCEPT
                     !.pc = "respond",
                     !.saw = IF ~fbUp \/ raises THEN "unread" ELSE "miss"])
            ELSE \* None: the `or` evaluates its right operand
                 Goto(r, [me EXCEPT
                     !.pc = IF me.language # "en" THEN "gcr2_read" ELSE "download",
                     !.saw = "miss"])
    /\ UNCHANGED <<Shared, served, Harness>>

\* main.py:32  get_cached_recipe(url, "en")
Gcr2Read(r) ==
    /\ At(r, "gcr2_read")
    /\ \E raises \in Raises :
        LET existing_data == get_recipe_from_firestore(store, Url, fbUp, raises)
        IN  Goto(r, [Me(r) EXCEPT
                !.pc = IF HasLang(existing_data, "en") THEN "an_read" ELSE "download"])
    /\ UNCHANGED <<Shared, served, Harness>>

\* the remote call, the JSON parsing or the Recipe construction fails
Fails(response) ==
    \/ response.t \in {"error", "invalid", "scalar"}
    \/ response.t = "dict" /\ ~response.valid
    \/ /\ response.t = "list"
       /\ Len(response.items) > 0
       /\ response.items[1].t = "dict"
       /\ ~response.items[1].valid

\* What the translation backend answers to a unit: any failure, or an
\* object or list for a recipe of as many steps as it was sent.
UnitResponses(recipe, target) ==
    {x \in Responses(Len(recipe.steps), target) :
        \/ Fails(x)
        \/ x.t = "list" /\ (x.items = <<>> \/ x.items[1].t # "dict")
        \/ x.t = "dict" /\ x.nsteps = Len(recipe.steps)
        \/ x.t = "list" /\ x.items # <<>> /\ x.items[1].t = "dict"
              /\ x.items[1].nsteps = Len(recipe.steps)}

\* translate_recipe(base_recipe, language) at gemini.py:99, 201 and 408
Translate(r) ==
    /\ At(r, "translate")
    /\ \E response \in UnitResponses(Me(r).base_recipe, Me(r).language) :
        LET me == Me(r)
            res == translate_recipe(me.base_recipe, me.language, response)
        IN  IF res.exc
            THEN \* the exception leaves translate_recipe
                 Goto(r, Log([me EXCEPT
                     !.pc = IF me.site = "fresh" THEN "delete" ELSE "notify",
                     !.error = "translate"], <<"translate">>))
            ELSE Goto(r, Log([me EXCEPT
                     !.pc = "save_get",
                     !.translated = res.ret,
                     !.tfail = Fails(response)], <<"translate">>))
    /\ UNCHANGED <<Shared, served, Harness>>

\* what the caller does with the id save_recipe_to_firestore returned
\*   gcr       gemini.py:102-104, back in main.py:31 with a Recipe (truthy)
\*   an        gemini.py:202-204, analyze_video returns translated
\*   fresh_en  gemini.py:403-407
\*   fresh     gemini.py:411-413
AfterSave(me, recipe_id) ==
    CASE me.site = "gcr" ->
            IF me.via = "translate"
            THEN \* main.py:128: the Recipe returned is the answer
                 [me EXCEPT !.pc = "respond", !.exists = FALSE,
                            !.recipe = [me.translated EXCEPT !.id = me.base_recipe.id]]
            ELSE \* main.py:31 keeps only the truth value of the Recipe returned
                 [me EXCEPT !.pc = "an_read", !.translated = None,
                            !.base_recipe = None, !.exists = FALSE, !.tfail = FALSE]
      [] me.site = "an" ->
            [me EXCEPT !.pc = "notify", !.exists = FALSE,
                       !.recipe = [me.translated EXCEPT !.id = me.base_recipe.id]]
      [] me.site = "fresh_en" ->
            IF me.language # "en"
            THEN [me EXCEPT !.pc = "translate", !.site = "fresh", !.exists = FALSE,
                            !.firestore_id = recipe_id,
                            !.base_recipe = [@ EXCEPT !.id = recipe_id]]
            ELSE [me EXCEPT !.pc = "delete", !.exists = FALSE,
                            !.firestore_id = recipe_id,
                            !.base_recipe = [@ EXCEPT !.id = recipe_id],
                            !.recipe = [me.base_recipe EXCEPT !.id = recipe_id]]
      [] me.site = "fresh" ->
            [me EXCEPT !.pc = "delete", !.exists = FALSE,
                       !.recipe = [me.translated EXCEPT !.id = me.firestore_id]]

\* the language and the payload of the save under way
SaveLanguage(me) == IF me.site = "fresh_en" THEN "en" ELSE me.language
SaveData(me) ==
    IF me.site = "fresh_en" THEN Dict(me.base_recipe) ELSE Dict(me.translated)

\* save_recipe_to_firestore up to doc_ref.get() (firebase_service.py:87-98)
SaveGet(r) ==
    /\ At(r, "save_get")
    /\ \E raises \in Raises :
        LET me == Log(Me(r), <<"save", SaveLanguage(Me(r))>>)
        IN  IF ~fbUp \/ raises
            THEN Goto(r, AfterSave(me, None))
            ELSE Goto(r, [me EXCEPT !.pc = "save_set",
                                    !.exists = Exists(store, generate_recipe_id(Url))])
    /\ UNCHANGED <<Shared, served, Harness>>

\* save_recipe_to_firestore from `if doc.exists` on (firebase_service.py:100-137)
SaveSet(r) ==
    /\ At(r, "save_set")
    /\ \E raises \in Raises :
        LET me == Me(r)
        IN  IF raises
            THEN /\ Goto(r, AfterSave(me, None))
                 /\ UNCHANGED store
            ELSE /\ store' = SaveWrite(store, me.exists, SaveData(me), Url,
                                       SaveLanguage(me))
                 /\ Goto(r, AfterSave(Log(me, <<"set", SaveLanguage(me)>>),
                                      generate_recipe_id(Url)))
    /\ UNCHANGED <<files, Env, served, Harness>>

\* main.py:38  download_instagram_video(url): a (filename, metadata) tuple,
\* or ValueError (downloader.py:71-74)
Download(r) ==
    /\ At(r, "download")
    /\ \/ /\ Goto(r, Log([Me(r) EXCEPT !.pc = "an_read",
                             !.video_path = <<(<<"video", r>>), "metadata">>],
                         <<"download">>))
          /\ files' = (<<"video", r>> :> <<"mp4">>) @@ files
       \/ /\ Goto(r, Log([Me(r) EXCEPT !.pc = "notify", !.error = "download"],
                         <<"download">>))
          /\ UNCHANGED files
    /\ UNCHANGED <<store, Env, served, Harness>>

\* analyze_video, gemini.py:165-209
AnRead(r) ==
    /\ At(r, "an_read")
    /\ \E raises \in Raises :
        LET me == Me(r)
            existing_data == get_recipe_from_firestore(store, Url, fbUp, raises)
        IN  IF HasLang(existing_data, me.language)
            THEN Goto(r, [me EXCEPT !.pc = "notify",
                     !.recipe = CachedRecipe(existing_data, me.language, Url, TRUE)])
            ELSE IF HasLang(existing_data, "en")
            THEN Goto(r, [me EXCEPT !.pc = "translate", !.site = "an",
                     !.base_recipe = CachedRecipe(existing_data, "en", Url, FALSE)])
            ELSE IF me.video_path = None
            THEN Goto(r, [me EXCEPT !.pc = "notify", !.error = "no video path"])
            ELSE Goto(r, [me EXCEPT !.pc = "upload"])
    /\ UNCHANGED <<Shared, served, Harness>>

FileStates == {"PROCESSING", "ACTIVE", "FAILED"}

\* gemini.py:213  client.files.upload(file=video_path); outside any try
Upload(r) ==
    /\ At(r, "upload")
    /\ \/ \E state \in FileStates :
            Goto(r, Log([Me(r) EXCEPT !.pc = "poll", !.video_file = state], <<"upload">>))
       \/ Goto(r, Log([Me(r) EXCEPT !.pc = "notify", !.error = "upload"], <<"upload">>))
    /\ UNCHANGED <<Shared, served, Harness>>

\* gemini.py:217-220  one round of the readiness loop
Poll(r) ==
    /\ At(r, "poll")
    /\ Me(r).video_file = "PROCESSING"
    /\ \/ \E state \in FileStates :
            Goto(r, [Me(r) EXCEPT !.video_file = state, !.polls = (@ + 1) % 2])
       \/ Goto(r, [Me(r) EXCEPT !.pc = "notify", !.error = "poll", !.video_file = "",
                                !.polls = 0])
    /\ UNCHANGED <<Shared, served, Harness>>

\* gemini.py:222-225  after the loop
Ready(r) ==
    /\ At(r, "poll")
    /\ Me(r).video_file # "PROCESSING"
    /\ Goto(r, IF Me(r).video_file = "FAILED"
               THEN [Me(r) EXCEPT !.pc = "notify", !.video_file = "", !.polls = 0,
                                  !.error = "video processing failed"]
               ELSE [Me(r) EXCEPT !.pc = "extract", !.video_file = "", !.polls = 0])
    /\ UNCHANGED <<Shared, served, Harness>>

\* leave step i: the next step, or the hero image after the last one
NextStep(me) ==
    IF me.i < Len(me.data.steps)
    THEN [me EXCEPT !.pc = "gen", !.i = @ + 1, !.attempt = 0,
                    !.temp_filename = None, !.hist = <<>>, !.upurl = None]
    ELSE [me EXCEPT !.pc = "hero_gen", !.i = 0, !.attempt = 0,
                    !.temp_filename = None, !.hist = <<>>, !.upurl = None]

\* gemini.py:262-267  `if "rating" not in data: ...`
Defaulted(given, random) == IF given = None THEN random ELSE given[1]

\* the extraction whose defaults replace what the extractor supplied
ExtractOverwriting(r) ==
    /\ At(r, "extract")
    /\ \/ \E k \in 0..maxdraft, rating \in extras.rating,
             reviews_count \in extras.reviews_count,
             uniform \in extras.uniform, randint \in extras.randint :
            Goto(r, NextStep(Log([Me(r) EXCEPT
                !.draft = [steps |-> k, rating |-> rating,
                           reviews_count |-> reviews_count],
                !.data = [title |-> r, steps |-> [j \in 1..k |-> None],
                          hero_image_url |-> None,
                          rating |-> uniform, reviews_count |-> randint]],
                <<"extract">>)))
       \/ \E e \in {"generate_content", "json"} :
            Goto(r, Log([Me(r) EXCEPT !.pc = "delete", !.error = e], <<"extract">>))
    /\ UNCHANGED <<Shared, served, Harness>>

\* gemini.py:249-277  the extraction call, the parse and the defaults: a
\* draft with k steps and no imagery, or an exception
Extract(r) ==
    /\ At(r, "extract")
    /\ \/ \E k \in 0..maxdraft, rating \in extras.rating,
             reviews_count \in extras.reviews_count,
             uniform \in extras.uniform, randint \in extras.randint :
            Goto(r, NextStep(Log([Me(r) EXCEPT
                !.draft = [steps |-> k, rating |-> rating,
                           reviews_count |-> reviews_count],
                !.data = [title |-> r, steps |-> [j \in 1..k |-> None],
                          hero_image_url |-> None,
                          rating |-> Defaulted(rating, uniform),
                          reviews_count |-> Defaulted(reviews_count, randint)]],
                <<"extract">>)))
       \/ \E e \in {"generate_content", "json"} :
            Goto(r, Log([Me(r) EXCEPT !.pc = "delete", !.error = e], <<"extract">>))
    /\ UNCHANGED <<Shared, served, Harness>>

----------------------------------------------------------------------------
(* analyze_video: the illustration of the steps (gemini.py:277-347) *)

max_retries == 3

\* the decimal digits of n contain the three digits of pat
RECURSIVE HasDigits(_, _)
HasDigits(n, pat) ==
    IF n < 100 THEN FALSE ELSE (n % 1000 = pat) \/ HasDigits(n \div 10, pat)

\* "503" in str(e) or "429" in str(e), for the FileNotFoundError of
\* os.remove, whose message quotes the file name and so the second it was
\* named in
QuotesTransient(temp_filename) ==
    HasDigits(temp_filename[2], 503) \/ HasDigits(temp_filename[2], 429)

\* f"recipes/{generate_recipe_id(video_url)}/{temp_filename}"
BlobName(source_url, temp_filename) == <<generate_recipe_id(source_url), temp_filename>>

SetImage(me, url) == [me EXCEPT !.data.steps[me.i] = url]

\* the attempt ended without a break: the next attempt, when there is one
NextAttempt(me, how) ==
    [me EXCEPT !.pc = "gen", !.attempt = @ + 1, !.hist = Append(@, how),
               !.temp_filename = None, !.upurl = None]

\* an except clause that gives the whole illustration up on an error that
\* is not retried
AttemptAborts(me, transient, how) ==
    IF transient /\ me.attempt < max_retries - 1
    THEN NextAttempt(me, how)
    ELSE [me EXCEPT !.pc = "hero_gen", !.i = 0, !.attempt = 0,
                    !.temp_filename = None, !.hist = <<>>, !.upurl = None]

\* the `except Exception as e` of the attempt loop (gemini.py:332-339)
AttemptFailed(me, transient, how) ==
    IF transient /\ me.attempt < max_retries - 1
    THEN NextAttempt(me, how)
    ELSE NextStep(SetImage(me, None))

\* what one image-generation call may do
GenOutcomes ==
    IF imaging THEN {"image", "empty", "transient", "other"}
    ELSE {"empty", "transient", "other"}

\* gemini.py:290-315  one attempt: the generation call and, when the
\* response carries image data, the temporary file
Gen(r) ==
    /\ At(r, "gen")
    /\ \E outcome \in GenOutcomes :
        LET me == Me(r)
        IN  CASE outcome = "image" ->
                   LET temp_filename == <<"step", now, me.i - 1>>
                   IN  /\ files' = (temp_filename :> <<r, me.i>>) @@ files
                       /\ Goto(r, [me EXCEPT !.pc = "up",
                                             !.temp_filename = temp_filename])
              [] outcome = "empty" ->
                   \* neither break is reached: the loop goes on
                   /\ Goto(r, IF me.attempt < max_retries - 1
                              THEN NextAttempt(me, "empty")
                              ELSE NextStep(me))
                   /\ UNCHANGED files
              [] outcome = "transient" ->
                   /\ Goto(r, AttemptFailed(me, TRUE, "transient"))
                   /\ UNCHANGED files
              [] outcome = "other" ->
                   /\ Goto(r, AttemptFailed(me, FALSE, "other"))
                   /\ UNCHANGED files
    /\ UNCHANGED <<store, Env, served, Harness>>

\* gemini.py:318-324  upload_image and the assignment of image_url
Up(r) ==
    /\ At(r, "up")
    /\ \E raises \in Raises :
        LET me == Me(r)
            remote_url == upload_image(files, me.temp_filename,
                                       BlobName(Url, me.temp_filename), fbUp, raises)
        IN  Goto(r, [(IF remote_url # None THEN SetImage(me, remote_url) ELSE me)
                        EXCEPT !.pc = "rm", !.upurl = remote_url])
    /\ UNCHANGED <<Shared, served, Harness>>

\* gemini.py:327-331  os.remove(temp_filename), then saved and both breaks;
\* FileNotFoundError when the file is gone
Rm(r) ==
    /\ At(r, "rm")
    /\ LET me == Me(r)
       IN  IF me.temp_filename \in DOMAIN files
           THEN /\ files' = [f \in DOMAIN files \ {me.temp_filename} |-> files[f]]
                /\ Goto(r, NextStep(me))
           ELSE /\ UNCHANGED files
                /\ Goto(r, AttemptFailed(me, QuotesTransient(me.temp_filename),
                                         "removed"))
    /\ UNCHANGED <<store, Env, served, Harness>>

----------------------------------------------------------------------------
(* analyze_video: the hero image (gemini.py:349-397) *)

\* the fallback of `except Exception`: the first step's image, when it has one
HeroFallback(me) ==
    IF Len(me.data.steps) > 0 /\ me.data.steps[1] # None
    THEN [me EXCEPT !.pc = "construct", !.data.hero_image_url = me.data.steps[1],
                    !.temp_filename = None]
    ELSE [me EXCEPT !.pc = "construct", !.temp_filename = None]

\* gemini.py:360-379  the one generation call and the temporary file
HeroGen(r) ==
    /\ At(r, "hero_gen")
    /\ \/ LET temp_filename == <<"hero", now>>
          IN  /\ imaging
              /\ files' = (temp_filename :> <<r, 0>>) @@ files
              /\ Goto(r, [Me(r) EXCEPT !.pc = "hero_up",
                                       !.temp_filename = temp_filename])
       \/ \* no part carries image data
          /\ Goto(r, [Me(r) EXCEPT !.pc = "construct"])
          /\ UNCHANGED files
       \/ \* the call raises, with a 429/503 message or another
          /\ \E how \in {"transient", "other"} :
                Goto(r, HeroFallback([Me(r) EXCEPT !.hist = <<how>>]))
          /\ UNCHANGED files
    /\ UNCHANGED <<store, Env, served, Harness>>

\* gemini.py:381-387
HeroUp(r) ==
    /\ At(r, "hero_up")
    /\ \E raises \in Raises :
        LET me == Me(r)
            remote_url == upload_image(files, me.temp_filename,
                                       BlobName(Url, me.temp_filename), fbUp, raises)
        IN  Goto(r, [me EXCEPT !.pc = "hero_rm",
                        !.data.hero_image_url =
                            IF remote_url # None THEN remote_url ELSE @])
    /\ UNCHANGED <<Shared, served, Harness>>

\* gemini.py:389-390  os.remove(temp_filename); break
HeroRm(r) ==
    /\ At(r, "hero_rm")
    /\ LET me == Me(r)
       IN  IF me.temp_filename \in DOMAIN files
           THEN /\ files' = [f \in DOMAIN files \ {me.temp_filename} |-> files[f]]
                /\ Goto(r, [me EXCEPT !.pc = "construct", !.temp_filename = None])
           ELSE /\ UNCHANGED files
                /\ Goto(r, HeroFallback(me))
    /\ UNCHANGED <<store, Env, served, Harness>>

----------------------------------------------------------------------------
(* analyze_video: persist, translate, release (gemini.py:399-425) *)

\* Recipe(**data) followed at once by the translation, the base unsaved
ConstructUnsaved(r) ==
    /\ At(r, "construct")
    /\ Goto(r, [Me(r) EXCEPT
           !.pc = IF Me(r).language # "en" THEN "translate" ELSE "save_get",
           !.site = IF Me(r).language # "en" THEN "fresh" ELSE "fresh_en",
           !.base_recipe = [id |-> None, title |-> Me(r).data.title,
                            text |-> "en", language |-> "en",
                            steps |-> Me(r).data.steps,
                            hero_image_url |-> Me(r).data.hero_image_url,
                            rating |-> Me(r).data.rating,
                            reviews_count |-> Me(r).data.reviews_count],
           !.data = None, !.hist = <<>>])
    /\ UNCHANGED <<Shared, served, Harness>>

\* gemini.py:399-400  Recipe(**data), which raises on a draft that lacks a
\* required field
Construct(r) ==
    /\ At(r, "construct")
    /\ \/ Goto(r, [Me(r) EXCEPT
              !.pc = "save_get", !.site = "fresh_en",
              !.base_recipe = [id |-> None, title |-> Me(r).data.title,
                               text |-> "en", language |-> "en",
                               steps |-> Me(r).data.steps,
                               hero_image_url |-> Me(r).data.hero_image_url,
                               rating |-> Me(r).data.rating,
                               reviews_count |-> Me(r).data.reviews_count],
              !.data = None, !.hist = <<>>])
       \/ Goto(r, [Me(r) EXCEPT !.pc = "delete", !.error = "Recipe(**data)",
                                !.data = None, !.hist = <<>>])
    /\ UNCHANGED <<Shared, served, Harness>>

\* gemini.py:417-425  except: the ValueError; finally: client.files.delete,
\* whatever it does
Delete(r) ==
    /\ At(r, "delete")
    /\ Goto(r, Log([Me(r) EXCEPT !.pc = "notify"], <<"delete">>))
    /\ UNCHANGED <<Shared, served, Harness>>

\* a handler that always answers with what get_cached_recipe returned
RespondFound(r) ==
    /\ At(r, "respond")
    /\ Goto(r, [Me(r) EXCEPT !.pc = "done", !.status = "200"])
    /\ UNCHANGED <<Shared, served, Harness>>

\* main.py:130-133  the recipe, or HTTPException(status_code=404)
Respond(r) ==
    /\ At(r, "respond")
    /\ Goto(r, [Me(r) EXCEPT
           !.pc = "done",
           !.status = IF Me(r).recipe # None THEN "200" ELSE "404"])
    /\ UNCHANGED <<Shared, served, Harness>>

\* the data handed to send_push_notification: main.py:54-57 after
\* analyze_video returned recipe, main.py:68-71 in the except clause
NoticeData(recipe, error) ==
    IF error = ""
    THEN [type |-> "recipe_ready", recipe_id |-> recipe.id]
    ELSE [type |-> "error", error |-> error]

\* the Notifier: send(token, title, body, data), best-effort and
\* fire-and-forget; the call is recorded by its data
send_push_notification(notices, data) == Append(notices, data)

\* a unit whose success notification is followed by the one of the except
\* clause, as when the first send raised after it was delivered
NotifyBoth(r) ==
    /\ At(r, "notify")
    /\ LET me == Me(r)
           first == send_push_notification(me.notices, NoticeData(me.recipe, me.error))
       IN  Goto(r, [me EXCEPT
               !.pc = "cleanup",
               !.outcome = IF me.error = "" THEN "recipe_ready" ELSE "error",
               !.notices = IF me.fcm_token = None THEN @
                           ELSE IF me.error # "" THEN first
                           ELSE send_push_notification(first,
                                    NoticeData(me.recipe, "send"))])
    /\ UNCHANGED <<Shared, served, Harness>>

\* main.py:47-73  the notification of the outcome: `if fcm_token and recipe`
\* after analyze_video returned, `if fcm_token` in the except clause
Notify(r) ==
    /\ At(r, "notify")
    /\ LET me == Me(r)
       IN  Goto(r, [me EXCEPT
               !.pc = "cleanup",
               !.outcome = IF me.error = "" THEN "recipe_ready" ELSE "error",
               !.notices = IF me.fcm_token = None THEN @
                           ELSE send_push_notification(@,
                                    NoticeData(me.recipe, me.error))])
    /\ UNCHANGED <<Shared, served, Harness>>

\* main.py:75  os.path.exists(video_path): video_path is what
\* download_instagram_video returned, the (filename, metadata) tuple of
\* downloader.py:70, which names no file (os.stat rejects it)
os_path_exists(fs, path) ==
    IF Len(path) = 2 /\ path[2] = "metadata" THEN FALSE ELSE path \in DOMAIN fs

\* main.py:74-80  finally: os.remove(video_path) behind the existence test;
\* the unit is over and its locals are gone
Cleanup(r) ==
    /\ At(r, "cleanup")
    /\ LET video_path == Me(r).video_path
       IN  files' = IF video_path # None /\ os_path_exists(files, video_path)
                    THEN [f \in DOMAIN files \ {video_path} |-> files[f]]
                    ELSE files
    /\ Goto(r, [IdleRun EXCEPT !.pc = "done"])
    /\ UNCHANGED <<store, Env, served, Harness>>

----------------------------------------------------------------------------
(* The specifications of the pipeline *)

IdleTr == [pc |-> "idle"]

\* Two requests, served by an image backend that works.
Init ==
    /\ store = <<>>
    /\ files = <<>>
    /\ now \in Times
    /\ fbUp \in BOOLEAN
    /\ imaging = TRUE
    /\ quota = Cardinality(Runs)
    /\ maxdraft = MaxSteps
    /\ extras = PlainExtras
    /\ tokens = {<<"device">>}
    /\ served = 0
    /\ run = [r \in Runs |-> IdleRun]
    /\ call = <<>>
    /\ tr = IdleTr

\* the steps that come before and after the imagery
Plain(r) ==
    \/ Start(r) \/ GcrRead(r) \/ Gcr2Read(r) \/ Translate(r)
    \/ SaveGet(r) \/ SaveSet(r) \/ Download(r) \/ AnRead(r)
    \/ Upload(r) \/ Poll(r) \/ Ready(r) \/ Extract(r)
    \/ Gen(r) \/ HeroGen(r)
    \/ Construct(r) \/ Delete(r) \/ Notify(r) \/ Cleanup(r)

\* the steps that handle an image the backend returned
Imagery(r) == Up(r) \/ Rm(r) \/ HeroUp(r) \/ HeroRm(r)

Next == \E r \in Runs : Plain(r) \/ Imagery(r)

Spec == Init /\ [][Next]_vars

\* One request, for a draft of up to MaxDraft steps: a unit on its own.
InitAlone ==
    /\ store = <<>>
    /\ files = <<>>
    /\ now \in Times
    /\ fbUp \in BOOLEAN
    /\ imaging = TRUE
    /\ quota = 1
    /\ maxdraft = MaxDraft
    /\ extras = AllExtras
    /\ tokens = {None, <<"device">>}
    /\ served = 0
    /\ run = [r \in Runs |-> IdleRun]
    /\ call = <<>>
    /\ tr = IdleTr

SpecAlone == InitAlone /\ [][Next]_vars

\* The same, each unit running on: a background unit is a thread of the
\* pool that keeps taking its next step; nothing makes the backends answer
\* one way rather than another.
SpecAloneFair ==
    InitAlone /\ [][Next]_vars /\ \A r \in Runs : WF_vars(Plain(r) \/ Imagery(r))

\* MaxRequests requests, one after the other on the two units, while the
\* image backend returns no image: the recipes carry no imagery, which
\* neither the cache nor the store ever looks at.
InitCache ==
    /\ store = <<>>
    /\ files = <<>>
    /\ now = 428
    /\ fbUp \in BOOLEAN
    /\ imaging = FALSE
    /\ quota = MaxRequests
    /\ maxdraft = MaxSteps
    /\ extras = PlainExtras
    /\ tokens = {<<"device">>}
    /\ served = 0
    /\ run = [r \in Runs |-> IdleRun]
    /\ call = <<>>
    /\ tr = IdleTr

NextCache == \E r \in Runs : Plain(r)

SpecCache == InitCache /\ [][NextCache]_vars

----------------------------------------------------------------------------
(* save_recipe_to_firestore called on its own: two callers, one document *)

Calls == {1, 2}

\* the recipe.dict() a caller saves
PayloadOf(who, language) ==
    [title |-> who, text |-> language, language |-> language,
     steps |-> <<>>, hero_image_url |-> None, rating |-> 48, reviews_count |-> 124]

\* merge the translations of the languages of S into document d
RECURSIVE MergeAll(_, _)
MergeAll(d, S) ==
    IF S = {} THEN d
    ELSE LET l == CHOOSE x \in S : TRUE
         IN  MergeAll([d EXCEPT !.translations = (l :> PayloadOf(0, l)) @@ @], S \ {l})

\* The documents the store may hold when the calls begin: created by an
\* earlier save, merged into by later ones, rated or not by /rate.
InitialDocs ==
    LET created == {MergeAll(NewRecipe(PayloadOf(0, l), Url, l), S) :
                       l \in Langs, S \in SUBSET Langs}
    IN  created \cup {[rating |-> 5, reviews_count |-> 7] @@ d : d \in created}

InitSave ==
    /\ store \in {<<>>} \cup {Key :> d : d \in InitialDocs}
    /\ files = <<>>
    /\ now = 428
    /\ fbUp = TRUE
    /\ imaging = FALSE
    /\ quota = 0
    /\ maxdraft = 0
    /\ extras = PlainExtras
    /\ tokens = {<<"device">>}
    /\ served = 0
    /\ run = [r \in Runs |-> IdleRun]
    /\ call \in [Calls -> [pc : {"get"}, language : Langs, exists : {FALSE},
                           ret : {None}]]
    /\ tr = IdleTr

\* firebase_service.py:87-98
CallGet(c) ==
    /\ call[c].pc = "get"
    /\ \E raises \in Raises :
        IF ~fbUp \/ raises
        THEN call' = [call EXCEPT ![c].pc = "done"]
        ELSE call' = [call EXCEPT ![c].pc = "set",
                                  ![c].exists = Exists(store, generate_recipe_id(Url))]
    /\ UNCHANGED <<Shared, served, run, tr>>

\* firebase_service.py:100-137
CallSet(c) ==
    /\ call[c].pc = "set"
    /\ \E raises \in Raises :
        IF raises
        THEN /\ call' = [call EXCEPT ![c].pc = "done", ![c].exists = FALSE]
             /\ UNCHANGED store
        ELSE /\ store' = SaveWrite(store, call[c].exists,
                                   PayloadOf(c, call[c].language), Url,
                                   call[c].language)
             /\ call' = [call EXCEPT ![c].pc = "done", ![c].exists = FALSE,
                                     ![c].ret = generate_recipe_id(Url)]
    /\ UNCHANGED <<files, Env, served, run, tr>>

NextSave == \E c \in Calls : CallGet(c) \/ CallSet(c)

SpecSave == InitSave /\ [][NextSave]_vars

\* One request to POST /translate, the store holding any document or none.
InitEndpoint ==
    /\ store \in {<<>>} \cup {Key :> d : d \in InitialDocs}
    /\ files = <<>>
    /\ now = 428
    /\ fbUp \in BOOLEAN
    /\ imaging = FALSE
    /\ quota = 1
    /\ maxdraft = 0
    /\ extras = PlainExtras
    /\ tokens = {<<"device">>}
    /\ served = 0
    /\ run = [r \in Runs |-> IdleRun]
    /\ call = <<>>
    /\ tr = IdleTr

NextEndpoint ==
    \E r \in Runs :
        \/ StartTranslate(r)
        \/ GcrRead(r)
        \/ Translate(r)
        \/ SaveGet(r)
        \/ SaveSet(r)
        \/ Respond(r)

SpecEndpoint == InitEndpoint /\ [][NextEndpoint]_vars

----------------------------------------------------------------------------
(* translate_recipe called on its own *)

ImageUrls == {None, <<"url", "a">>, <<"url", "b">>}

StepLists == UNION {[1..n -> ImageUrls] : n \in 0..MaxBaseSteps}

BaseRecipes ==
    [id : {Key}, title : {0}, text : {"en"}, language : {"en"},
     steps : StepLists, hero_image_url : {None, <<"url", "hero">>},
     rating : {48}, reviews_count : {124}]

InitTranslate ==
    /\ store = <<>>
    /\ files = <<>>
    /\ now = 428
    /\ fbUp = TRUE
    /\ imaging = FALSE
    /\ quota = 0
    /\ maxdraft = 0
    /\ extras = PlainExtras
    /\ tokens = {<<"device">>}
    /\ served = 0
    /\ run = [r \in Runs |-> IdleRun]
    /\ call = <<>>
    /\ tr \in [pc : {"called"}, recipe : BaseRecipes,
               target_language : Langs \ {"en"}, response : {None},
               result : {None}]

\* gemini.py:124-132  the backend answers
TrRespond ==
    /\ tr.pc = "called"
    /\ \E response \in Responses(MaxRespSteps, tr.target_language) :
          tr' = [tr EXCEPT !.pc = "answered", !.response = response]
    /\ UNCHANGED <<Shared, served, run, call>>

\* gemini.py:134-157  the rest of translate_recipe
TrReturn ==
    /\ tr.pc = "answered"
    /\ tr' = [tr EXCEPT !.pc = "done",
                        !.result = translate_recipe(tr.recipe, tr.target_language,
                                                    tr.response)]
    /\ UNCHANGED <<Shared, served, run, call>>

NextTranslate == TrRespond \/ TrReturn

SpecTranslate == InitTranslate /\ [][NextTranslate]_vars

----------------------------------------------------------------------------
(* generate_recipe_id called on its own *)

\* what a URL is made of (see Url)
UrlTokens == (Literals \ {"https://www."}) \cup {"X", "Y"} \cup StopChars

\* the sequences of at most n tokens
TokenSeqs(n) == UNION {[1..k -> UrlTokens] : k \in 0..n}

\* the source URLs: a scheme and host prefix and a path of at most
\* MaxPathLen tokens, which may hold a query string or a fragment already
SourceUrls == {<<"https://www.">> \o path : path \in TokenSeqs(MaxPathLen)}

\* what a client appends: "?" or "#" and at most MaxSuffixLen tokens
Suffixes ==
    {<<mark>> \o rest : mark \in {"?", "#"}, rest \in TokenSeqs(MaxSuffixLen)}

InitKey ==
    /\ store = <<>>
    /\ files = <<>>
    /\ now = 428
    /\ fbUp = TRUE
    /\ imaging = FALSE
    /\ quota = 0
    /\ maxdraft = 0
    /\ extras = PlainExtras
    /\ tokens = {<<"device">>}
    /\ served = 0
    /\ run = [r \in Runs |-> IdleRun]
    /\ call = <<>>
    /\ tr \in [pc : {"key"}, u : SourceUrls, s : Suffixes,
               plain : {None}, variant : {None}, again : {None}]

\* firebase_service.py:64-80 applied to u, to u + s, and to u + s once more
KeyDerive ==
    /\ tr.pc = "key"
    /\ tr' = [tr EXCEPT !.pc = "done",
                        !.plain = generate_recipe_id(tr.u),
                        !.variant = generate_recipe_id(tr.u \o tr.s),
                        !.again = generate_recipe_id(tr.u \o tr.s)]
    /\ UNCHANGED <<Shared, served, run, call>>

NextKey == KeyDerive

SpecKey == InitKey /\ [][NextKey]_vars

----------------------------------------------------------------------------
(* Properties *)

\* unit r has issued the external call e since it took its request
Issued(r, e) == \E k \in DOMAIN run[r].log : run[r].log[k] = e

\* unit r never reached the Downloader nor the video extraction
NoAcquisition(r) ==
    /\ ~Issued(r, <<"download">>)
    /\ ~Issued(r, <<"upload">>)
    /\ ~Issued(r, <<"extract">>)

\* C1: a unit whose cache lookup finds translations[L] for the requested
\* language L never invokes the Downloader or the extraction, and the recipe
\* it reports is the one built from the stored translations[L] entry.
C1_LanguageHit ==
    \A r \in Runs :
        run[r].saw = "language" =>
            /\ NoAcquisition(r)
            /\ run[r].pc = "notify" /\ run[r].error = "" =>
                  /\ HasLang(Field(store, Key), run[r].language)
                  /\ run[r].recipe =
                        CachedRecipe(store[Key], run[r].language, Url, TRUE)

\* C2: a unit asking for L # "en" whose cache lookup finds translations["en"]
\* but not translations[L] calls the Translator on the cached base before
\* anything else, then saves the result for L, and never invokes the
\* Downloader or the extraction.
C2_BaseHitCalls ==
    \A r \in Runs :
        run[r].saw = "base" =>
            /\ run[r].language # "en"
            /\ NoAcquisition(r)
            /\ run[r].pc = "translate" \/ Issued(r, <<"translate">>)
            /\ Len(run[r].log) >= 1 => run[r].log[1] = <<"translate">>
            /\ Len(run[r].log) >= 2 => run[r].log[2] = <<"save", run[r].language>>
            /\ run[r].pc = "translate" /\ run[r].site = "gcr" =>
                  /\ HasLang(Field(store, Key), "en")
                  /\ run[r].base_recipe = CachedRecipe(store[Key], "en", Url, TRUE)

\* the write of the base-fallback save, when the store applies it, puts the
\* Translator's result under translations[L]
C2_BaseHitWrite ==
    \A r \in Runs :
        /\ run[r].saw = "base"
        /\ run[r].pc = "save_set"
        /\ run[r].site = "gcr"
        /\ run'[r].log = Append(run[r].log, <<"set", run[r].language>>)
        => /\ HasLang(Field(store', Key), run[r].language)
           /\ store'[Key].translations[run[r].language] = Dict(run[r].translated)
           /\ \E response \in UnitResponses(run[r].base_recipe, run[r].language) :
                 run[r].translated =
                    translate_recipe(run[r].base_recipe, run[r].language, response).ret

C2_BaseHit == []C2_BaseHitCalls /\ [][C2_BaseHitWrite]_vars

\* a base hit whose translation went into the store and that was reported
C2_Witness ==
    \E r \in Runs :
        /\ run[r].saw = "base"
        /\ run[r].pc = "notify"
        /\ run[r].error = ""
        /\ Issued(r, <<"set", run[r].language>>)

\* the positions of the external call e in the log of unit r
Positions(r, e) == {k \in DOMAIN run[r].log : run[r].log[k] = e}

\* C3: in a unit that extracts afresh for a language L # "en", the save of
\* the base ("en") recipe is issued after the extraction and before the
\* Translator is called, before the save for L is issued and before any
\* write of translations[L].
C3_BaseFirst ==
    \A r \in Runs :
        \A x \in Positions(r, <<"extract">>) :
            \A k \in DOMAIN run[r].log :
                /\ k > x
                /\ run[r].language # "en"
                /\ run[r].log[k] \in {<<"translate">>, <<"save", run[r].language>>,
                                      <<"set", run[r].language>>}
                => \E b \in Positions(r, <<"save", "en">>) : x < b /\ b < k

\* a fresh extraction for L # "en" that wrote translations[L]
C3_Witness ==
    \E r \in Runs :
        /\ run[r].language # "en"
        /\ Issued(r, <<"extract">>)
        /\ Issued(r, <<"set", "en">>)
        /\ Issued(r, <<"set", run[r].language>>)
        /\ run[r].pc = "notify"

\* C6: whatever the units do, the language keys of a document's
\* translations map never shrink: a document stays, and every key it holds
\* it still holds after the step.
C6_NeverShrinks ==
    [][\A id \in DOMAIN store :
          /\ id \in DOMAIN store'
          /\ DOMAIN store[id].translations \subseteq DOMAIN store'[id].translations]_vars

\* C8: translate_recipe never raises; when the remote call, the parse or the
\* Recipe construction fails, the recipe a unit goes on with is the input
\* recipe unchanged, and no unit ends in failure because of the translation.
C8_TranslateNonFatal ==
    \A r \in Runs :
        /\ run[r].error # "translate"
        /\ run[r].tfail /\ run[r].pc \in {"save_get", "save_set"} =>
              run[r].translated = run[r].base_recipe
        /\ run[r].tfail /\ run[r].pc = "notify" /\ run[r].error = "" =>
              Dict(run[r].recipe) = Dict(run[r].base_recipe)

\* a unit whose translation failed and that reports a recipe all the same
C8_Witness ==
    \E r \in Runs :
        /\ run[r].tfail
        /\ run[r].pc = "notify"
        /\ run[r].error = ""
        /\ Issued(r, <<"translate">>)

\* call c writes now, into a document its read found, and the store applies
\* the write
Merges(c) ==
    /\ call[c].pc = "set"
    /\ call[c].exists
    /\ call'[c].ret # None

\* C4: a save for L2 into a document the call found leaves translations[L1]
\* as it was for every other language L1, puts translations[L2] there, and
\* leaves metadata and every other top-level field (source_url, created_at,
\* hero_image_url, rating, reviews_count) as it was.
C4_MergeKeeps ==
    [][\A c \in Calls :
          Merges(c) =>
            LET old == store[Key]
                new == store'[Key]
                L2  == call[c].language
            IN  /\ DOMAIN new = DOMAIN old
                /\ \A field \in DOMAIN old \ {"translations"} : new[field] = old[field]
                /\ DOMAIN new.translations = DOMAIN old.translations \cup {L2}
                /\ \A L1 \in DOMAIN old.translations \ {L2} :
                       new.translations[L1] = old.translations[L1]
                /\ new.translations[L2] = PayloadOf(c, L2)]_vars

\* a rated document that held L1 and into which a call has merged L2 # L1
C4_Witness ==
    \E c \in Calls :
        /\ call[c].pc = "done"
        /\ call[c].ret # None
        /\ Exists(store, Key)
        /\ "rating" \in DOMAIN store[Key]
        /\ store[Key].translations[call[c].language] = PayloadOf(c, call[c].language)
        /\ \E L1 \in DOMAIN store[Key].translations :
              store[Key].translations[L1] = PayloadOf(0, L1)

\* C5: when two concurrent saves for different languages have both returned
\* the document id, the document holds both languages, whether or not it
\* existed before.
C5_NoLostWrite ==
    \A c, d \in Calls :
        /\ call[c].pc = "done" /\ call[c].ret # None
        /\ call[d].pc = "done" /\ call[d].ret # None
        /\ call[c].language # call[d].language
        => /\ Exists(store, Key)
           /\ {call[c].language, call[d].language} \subseteq DOMAIN store[Key].translations

\* every step of the recipe has an image
Illustrated(recipe) == \A k \in DOMAIN recipe.steps : recipe.steps[k] # None

\* the response is one Recipe(**data) accepts
WellFormed(response) == response.t = "dict" /\ response.valid

\* C7: for a base recipe of N illustrated steps and a well-formed response
\* of any number of steps, translate_recipe returns N steps, step i carrying
\* the image of the base recipe's step i.
C7_ImageryKept ==
    /\ tr.pc = "done"
    /\ Illustrated(tr.recipe)
    /\ WellFormed(tr.response)
    => /\ Len(tr.result.ret.steps) = Len(tr.recipe.steps)
       /\ \A k \in DOMAIN tr.recipe.steps :
             tr.result.ret.steps[k] = tr.recipe.steps[k]

\* unit r is illustrating a step, its first two generation calls having
\* failed with a transient error
TwoTransient(r) ==
    /\ run[r].pc \in {"gen", "up", "rm"}
    /\ run[r].hist = <<"transient", "transient">>

\* unit r leaves the step it is illustrating
LeavesStep(r) ==
    /\ run[r].pc \in {"gen", "up", "rm"}
    /\ \/ run'[r].pc = "hero_gen"
       \/ run'[r].pc = "gen" /\ run'[r].i = run[r].i + 1

\* no step sees a fourth generation call
C9_AtMostThree ==
    \A r \in Runs :
        run[r].pc \in {"gen", "up", "rm"} =>
            /\ run[r].attempt < max_retries
            /\ Len(run[r].hist) = run[r].attempt

\* after two transient failures: a third call whose image was uploaded ends
\* the step with that URL, and a third call that fails ends the step
\* without an image and goes on to the rest of the pipeline
C9_ThirdCall ==
    \A r \in Runs :
        /\ TwoTransient(r) /\ run[r].pc = "rm" /\ run[r].upurl # None
              /\ run'[r] # run[r]
              => /\ LeavesStep(r)
                 /\ run'[r].data.steps[run[r].i] = run[r].upurl
        /\ TwoTransient(r) /\ run[r].pc = "gen"
              /\ run'[r] # run[r] /\ run'[r].pc # "up"
              => /\ LeavesStep(r)
                 /\ run'[r].data.steps[run[r].i] = None

\* C9: a step sees at most 3 image-generation calls; two transient failures
\* followed by a call that succeeds and whose upload returns a URL end the
\* step with an image; three transient failures end it without one, and
\* the unit goes on.
C9_RetryBound == []C9_AtMostThree /\ [][C9_ThirdCall]_vars

\* C10: an attempt of a step follows only an attempt that failed with an
\* error whose message holds 429 or 503 (raised by the backend, or by the
\* removal of a file whose name holds these digits); after a success, any
\* other error or a response without image data the step sees no further
\* attempt.
C10_RetryOnlyTransient ==
    \A r \in Runs :
        \A k \in DOMAIN run[r].hist : run[r].hist[k] \in {"transient", "removed"}

StepPcs == {"gen", "up", "rm"}

\* the URL upload_image returns for the image of step k (1-based)
StepUrl(k) == <<"url", BlobName(Url, <<"step", now, k - 1>>)>>

\* while unit r illustrates step i: the steps before it hold no image or
\* their own, the steps after it are untouched, and a step whose upload
\* returned nothing has no image (unless an earlier attempt of the step had
\* one uploaded before its file could not be removed)
C11_InOrder ==
    \A r \in Runs :
        run[r].pc \in StepPcs =>
            LET me == run[r]
            IN  /\ me.i \in DOMAIN me.data.steps
                /\ \A k \in DOMAIN me.data.steps :
                      /\ k > me.i => me.data.steps[k] = None
                      /\ k <= me.i => me.data.steps[k] \in {None, StepUrl(k)}
                /\ me.pc = "rm" /\ me.upurl = None
                      /\ (\A a \in DOMAIN me.hist : me.hist[a] # "removed")
                      => me.data.steps[me.i] = None

\* whatever an attempt does, unit r goes from step i to step i + 1 and from
\* the last step to the hero image; the draft keeps its length, and the
\* recipe built for the base save has the draft's steps
C11_EveryStep ==
    \A r \in Runs :
        LET me == run[r]
            to == run'[r]
        IN  /\ me.pc = "extract" /\ to.data # None =>
                  IF Len(to.data.steps) = 0 THEN to.pc = "hero_gen"
                  ELSE to.pc = "gen" /\ to.i = 1 /\ to.attempt = 0
            /\ me.pc \in StepPcs =>
                  /\ to.pc \in StepPcs \cup {"hero_gen"}
                  /\ to.pc = "hero_gen" => me.i = Len(me.data.steps)
                  /\ to.pc \in StepPcs => to.i \in {me.i, me.i + 1}
                  /\ to.pc \in StepPcs /\ to.i = me.i + 1 =>
                        to.pc = "gen" /\ to.attempt = 0
            /\ me.pc \in StepPcs \cup {"hero_gen", "hero_up", "hero_rm"} =>
                  /\ to.data # None
                  /\ Len(to.data.steps) = Len(me.data.steps)
                  /\ \A k \in DOMAIN me.data.steps :
                        k # me.i => to.data.steps[k] = me.data.steps[k]
            /\ me.pc = "construct" /\ to.pc = "save_get" =>
                  to.base_recipe.steps = me.data.steps

\* C11: for a draft of N steps and every outcome of every attempt, the steps
\* are illustrated in index order, each later step is attempted whatever
\* happened to the earlier ones, the base save is reached with all N steps
\* in place, and a step whose image was generated but whose upload returned
\* nothing has no image_url.
C11_StepsSurvive == []C11_InOrder /\ [][C11_EveryStep]_vars

\* a recipe of two steps goes to the base save, the first step without
\* image, the second with its own
C11_Witness ==
    \E r \in Runs :
        /\ run[r].pc = "save_get"
        /\ run[r].site = "fresh_en"
        /\ Len(run[r].base_recipe.steps) = 2
        /\ run[r].base_recipe.steps[1] = None
        /\ run[r].base_recipe.steps[2] = StepUrl(2)

\* the URL upload_image returns for the hero image
HeroUrl == <<"url", BlobName(Url, <<"hero", now>>)>>

\* the image of the first step of a draft, None when it has none
FirstImage(data) == IF Len(data.steps) > 0 THEN data.steps[1] ELSE None

\* C12: when the hero generation is over, the recipe to persist carries the
\* dedicated hero image or, when there is none (the call raised, the
\* response carried no image data, the upload returned nothing), the image
\* of the first step; hero_image_url is absent only when the first step has
\* no image either.
C12_HeroFallback ==
    \A r \in Runs :
        run[r].pc = "construct" =>
            \/ run[r].data.hero_image_url = HeroUrl
            \/ run[r].data.hero_image_url = FirstImage(run[r].data)

\* C13: the fallback is taken after a hero generation call that raised a
\* transient (429/503) error only once the call has been made max_retries
\* times.
C13_HeroRetries ==
    \A r \in Runs :
        /\ run[r].pc = "construct"
        /\ run[r].hist # <<>>
        /\ run[r].hist[Len(run[r].hist)] = "transient"
        => Len(run[r].hist) = max_retries

\* C14: when a run of process_video_background is over, the local video
\* file its download produced is gone, however the run ended.
C14_VideoRemoved ==
    \A r \in Runs :
        run[r].pc \in {"idle", "done"} => <<"video", r>> \notin DOMAIN files

\* C15: when analyze_video has returned or raised after an upload of the
\* video that succeeded, a delete of the remote file has been attempted.
C15_RemoteReleased ==
    \A r \in Runs :
        /\ run[r].pc = "notify"
        /\ Issued(r, <<"upload">>)
        /\ run[r].error # "upload"
        => Issued(r, <<"delete">>)

\* the failures the pipeline may report: of the download, of the video
\* extraction by the inference backend, of the parse of its response
FatalErrors ==
    {"download", "upload", "poll", "video processing failed",
     "generate_content", "json", "Recipe(**data)"}

\* C16: a run ends with the error notification only after a failure of the
\* download, of the extraction or of the parse of its response; failures
\* of the store, of the imagery and of the translation leave the outcome
\* a success.
C16_OnlyFatal ==
    \A r \in Runs :
        run[r].outcome = "error" => run[r].error \in FatalErrors

\* a recipe without identifier and without any image URL
Bare(recipe) ==
    /\ recipe.id = None
    /\ recipe.hero_image_url = None
    /\ \A k \in DOMAIN recipe.steps : recipe.steps[k] = None

\* C17: when Firebase is not initialised the store operations return None
\* and never end the run: no unit sees a cached recipe, the store's failure
\* is never the reported error, and a unit that succeeds has downloaded and
\* extracted and returns a recipe without identifier and image URLs.
C17_StoreDown ==
    ~fbUp =>
        \A r \in Runs :
            /\ run[r].saw \notin {"language", "base"}
            /\ run[r].error \in FatalErrors \cup {""}
            /\ run[r].pc \in {"notify", "cleanup"} /\ run[r].error = ""
               => /\ Issued(r, <<"download">>)
                  /\ Issued(r, <<"extract">>)
                  /\ run[r].recipe # None
                  /\ Bare(run[r].recipe)

\* without the store, a request for "fr" reports a recipe of two steps
C17_Witness ==
    \E r \in Runs :
        /\ ~fbUp
        /\ run[r].outcome = "recipe_ready"
        /\ run[r].language = "fr"
        /\ Len(run[r].recipe.steps) = 2

\* C18: a success notification has type "recipe_ready" and carries as
\* recipe_id the key derived from the request URL; a failure notification
\* has type "error" and carries the error.
C18_Notice ==
    \A r \in Runs :
        \A k \in DOMAIN run[r].notices :
            LET notice == run[r].notices[k]
            IN  /\ run[r].outcome = "recipe_ready"
                   => /\ notice.type = "recipe_ready"
                      /\ notice.recipe_id = generate_recipe_id(Url)
                /\ run[r].outcome = "error"
                   => /\ notice.type = "error"
                      /\ notice.error # ""

\* a unit as add_task enqueues it for a request: nothing looked up,
\* downloaded or extracted yet
Enqueued(u) ==
    \E language \in ReqLangs, fcm_token \in tokens :
        u = [IdleRun EXCEPT !.pc = "gcr_read", !.language = language,
                            !.fcm_token = fcm_token, !.status = "processing"]

\* every unit under way belongs to a request that was answered "processing"
C19_Processing ==
    \A r \in Runs :
        run[r].pc \notin {"idle", "done"} => run[r].status = "processing"

\* serving a request enqueues one unit and touches nothing else
C19_Enqueues ==
    served' # served =>
        /\ served' = served + 1
        /\ \E r \in Runs :
              /\ run[r].pc \in {"idle", "done"}
              /\ Enqueued(run'[r])
              /\ \A q \in Runs \ {r} : run'[q] = run[q]
        /\ UNCHANGED <<store, files>>

\* C19: POST /analyze answers "processing" to every request, whatever is
\* cached and however the run ends, and enqueues exactly one run of the
\* pipeline for the request's language; the handler itself looks nothing
\* up and downloads and extracts nothing.
C19_AlwaysProcessing == []C19_Processing /\ [][C19_Enqueues]_vars

\* a request for a language that is cached was answered "processing", and
\* so was a request whose run ended with an error
C19_Witness ==
    /\ \E r \in Runs :
          /\ run[r].pc = "gcr_read"
          /\ run[r].status = "processing"
          /\ HasLang(get_recipe_from_firestore(store, Url, fbUp, FALSE),
                     run[r].language)
    /\ \E q \in Runs :
          /\ run[q].outcome = "error"
          /\ run[q].status = "processing"

\* the document stored for the URL, None when there is none
Doc == IF Exists(store, Key) THEN store[Key] ELSE None

\* POST /translate has answered the request unit r served
Answered(r) ==
    /\ run[r].via = "translate"
    /\ run[r].pc = "done"
    /\ run[r].status # ""

\* C20: POST /translate for (url, L) answers 404 exactly when the stored
\* document is absent or holds neither translations[L] nor
\* translations["en"]; otherwise it answers with the recipe stored under
\* translations[L], cached before or translated from the base to L and
\* persisted by this request; the Downloader and the extraction are never
\* invoked.
C20_Translate ==
    \A r \in Runs :
        Answered(r) =>
            /\ run[r].status = "404"
               <=> ~(HasLang(Doc, run[r].language) \/ HasLang(Doc, "en"))
            /\ run[r].status = "200"
               => /\ run[r].recipe # None
                  /\ HasLang(Doc, run[r].language)
                  /\ run[r].recipe = CachedRecipe(Doc, run[r].language, Url, TRUE)
                  /\ run[r].saw = "base" => run[r].recipe.text = run[r].language
            /\ NoAcquisition(r)

\* C20, amended: the 404 is also the answer when the read of the document
\* failed or Firebase is not initialised; the recipe returned for a base
\* hit is what translate_recipe returned, the base itself when the
\* translation failed, and it is the stored translations[L] only when the
\* write went through.
C20_TranslateSoft ==
    \A r \in Runs :
        Answered(r) =>
            /\ run[r].status = "404"
               <=> \/ run[r].saw = "unread"
                   \/ ~(HasLang(Doc, run[r].language) \/ HasLang(Doc, "en"))
            /\ run[r].status = "200"
               => /\ run[r].recipe # None
                  /\ run[r].recipe.id = generate_recipe_id(Url)
                  /\ run[r].saw = "language"
                     => /\ run[r].recipe = CachedRecipe(Doc, run[r].language, Url, TRUE)
                        /\ ~Issued(r, <<"translate">>)
                        /\ ~Issued(r, <<"save", run[r].language>>)
                  /\ run[r].saw = "base"
                     => /\ Issued(r, <<"translate">>)
                        /\ Issued(r, <<"save", run[r].language>>)
                        /\ run[r].recipe.text \in {run[r].language, "en"}
                        /\ run[r].tfail => run[r].recipe.text = "en"
                        /\ Issued(r, <<"set", run[r].language>>)
                           => run[r].recipe
                                = CachedRecipe(Doc, run[r].language, Url, TRUE)
            /\ NoAcquisition(r)

\* a request for "fr" finds the base alone, translates it, persists the
\* translation and answers with it
C20_Witness ==
    \E r \in Runs :
        /\ Answered(r)
        /\ run[r].language = "fr"
        /\ run[r].saw = "base"
        /\ run[r].status = "200"
        /\ ~run[r].tfail
        /\ run[r].recipe.text = "fr"
        /\ Issued(r, <<"set", "fr">>)

\* C21: the key of a source URL with a query string or a fragment appended
\* is the key of the source URL itself, for URLs with a content code and
\* for URLs that fall back to the stripped URL alike.
C21_Collapse ==
    tr.pc = "done" =>
        /\ tr.variant = tr.plain
        /\ tr.again = tr.variant

\* unit r has come back from analyze_video with the recipe of its own
\* fresh extraction for a request in "en"
FreshEn(r) ==
    /\ run[r].pc \in {"notify", "cleanup"}
    /\ run[r].error = ""
    /\ run[r].language = "en"
    /\ Issued(r, <<"extract">>)

\* C22: after a fresh extraction for "en" of a URL without stored document,
\* the recipe returned has as many steps as the extractor's draft, the
\* rating and reviews_count the extractor supplied or, where it supplied
\* none, a rating in [4.0, 5.0] and a reviews_count in [50, 500]; and once
\* the write of the base has gone through, the document of the URL's key
\* holds that recipe under translations["en"].
C22_FreshExtraction ==
    \A r \in Runs :
        FreshEn(r) =>
            LET recipe == run[r].recipe
                draft == run[r].draft
            IN  /\ Len(recipe.steps) = draft.steps
                /\ IF draft.rating = None
                   THEN recipe.rating \in MinRating..MaxRating
                   ELSE recipe.rating = draft.rating[1]
                /\ IF draft.reviews_count = None
                   THEN recipe.reviews_count \in MinReviews..MaxReviews
                   ELSE recipe.reviews_count = draft.reviews_count[1]
                /\ Issued(r, <<"set", "en">>)
                   => /\ Exists(store, generate_recipe_id(Url))
                      /\ HasLang(Doc, "en")
                      /\ Doc.translations["en"] = Dict(recipe)

\* a draft of two steps with a rating of 3.0 and no reviews_count has become
\* a stored recipe of two steps, rated 3.0, with 500 reviews
C22_Witness ==
    \E r \in Runs :
        /\ FreshEn(r)
        /\ run[r].draft = [steps |-> 2, rating |-> <<30>>, reviews_count |-> None]
        /\ run[r].recipe.rating = 30
        /\ run[r].recipe.reviews_count = MaxReviews
        /\ Len(run[r].recipe.steps) = 2
        /\ Issued(r, <<"set", "en">>)
        /\ HasLang(Doc, "en")

\* C23: what is stored under translations[L] is written in L: the base
\* that translate_recipe handed back untranslated is never persisted under
\* another language.
C23_NoUntranslated ==
    \A id \in DOMAIN store :
        \A language \in DOMAIN store[id].translations :
            store[id].translations[language].text = language

\* C24: between writing its temporary image file and removing it, a unit
\* finds the file in place, and up to the upload the file holds the bytes
\* the unit's own generation call returned for the step (or the hero).
C24_OwnFiles ==
    \A r \in Runs :
        /\ run[r].pc \in {"up", "hero_up"}
           => /\ run[r].temp_filename \in DOMAIN files
              /\ files[run[r].temp_filename] = <<r, run[r].i>>
        /\ run[r].pc \in {"rm", "hero_rm"}
           => run[r].temp_filename \in DOMAIN files

\* the first element of a list that is an object, None when there is none
FirstObject(items) ==
    LET at == {k \in DOMAIN items : items[k].t = "dict"}
    IN  IF at = {} THEN None ELSE items[Min(at)]

\* C25: for a list response, translate_recipe returns what it returns for
\* the first object of the list, wherever in the list it is, and the
\* original recipe when the list holds no object; no exception leaves it.
C25_FirstObject ==
    tr.pc = "done" /\ tr.response.t = "list" =>
        /\ ~tr.result.exc
        /\ tr.result = IF FirstObject(tr.response.items) = None
                       THEN [exc |-> FALSE, ret |-> tr.recipe]
                       ELSE translate_recipe(tr.recipe, tr.target_language,
                                             FirstObject(tr.response.items))

\* C26: every background unit that has started ends, with the success or
\* the failure outcome, whatever the backends answer.
C26_Terminates ==
    \A r \in Runs : (run[r].pc \notin {"idle", "done"}) ~> (run[r].pc = "done")

\* C27: every document of the store holds the base entry
\* translations["en"].
C27_BaseAlways ==
    \A id \in DOMAIN store : "en" \in DOMAIN store[id].translations

\* C28: a run that was given a token has sent, when it reaches its cleanup,
\* exactly one notification: "recipe_ready" if analyze_video returned a
\* recipe and "error" if it did not; a run without a token has sent none.
C28_OneNotice ==
    \A r \in Runs :
        /\ run[r].pc # "cleanup" => run[r].notices = <<>>
        /\ run[r].pc = "cleanup" =>
              IF run[r].fcm_token = None
              THEN run[r].notices = <<>>
              ELSE /\ Len(run[r].notices) = 1
                   /\ run[r].notices[1].type
                        = IF run[r].recipe # None THEN "recipe_ready" ELSE "error"

\* the run of a request with a token has failed in the extraction and sent
\* its one error notification
C28_Witness ==
    \E r \in Runs :
        /\ run[r].pc = "cleanup"
        /\ run[r].fcm_token # None
        /\ run[r].error = "json"
        /\ Len(run[r].notices) = 1
        /\ run[r].notices[1].type = "error"

\* the number of Translator calls unit r has issued for its request
TranslatorCalls(r) ==
    Cardinality({k \in DOMAIN run[r].log : run[r].log[k] = <<"translate">>})

\* C29: a run issues at most one Translator call; what the cache check
\* translated is not translated again by analyze_video.
C29_OneTranslation ==
    \A r \in Runs : TranslatorCalls(r) <= 1

====
